---- MODULE Spec2Model ----
(***************************************************************************)
(* A model of pyarena's ArenaLog (src/src/pyarena/arena_log.py): one       *)
(* tracker object, the watchdog observers it creates, schedules, starts,   *)
(* stops and joins, the FileEventHandler that filters the observers'       *)
(* events, and the filesystem and platform the tracker reads.              *)
(*                                                                         *)
(* A path is the sequence of its components (pathlib.Path); str(path) is   *)
(* the components joined by "/".  An observer is a thread: its callbacks   *)
(* run on that thread, threading.Thread.join raises RuntimeError when the  *)
(* thread joins itself, and an exception that leaves a callback ends the   *)
(* thread.                                                                 *)
(***************************************************************************)
EXTENDS Integers, Sequences, FiniteSets, TLC

\* ---------------------------------------------------------------- bounds
\* The number of observer objects one run may create (construction plus rotations).
MaxObservers == 2

\* ------------------------------------------------------------- constants
WINDOWS_PLATFORM_IDENTIFIER == "Windows"
COMPANY_SUBFOLDER_NAME == "Wizards Of The Coast"
APPLICATION_SUBFOLDER_NAME == "MTGA"
CURRENT_LOGFILE_NAME == "Player.log"
PREVIOUS_LOGFILE_NAME == "Player-prev.log"
DEFAULT_POLLING_OBSERVER_INTERVAL == 1
\* RuntimeError("Unable to stop watchdog observer")
UNABLE_TO_STOP_OBSERVER_EXCEPTION == "RuntimeError: Unable to stop watchdog observer"
\* RuntimeError("Unable to automatically locate logfile location")
NO_LOGFILE_FOUND_EXCEPTION == "RuntimeError: Unable to automatically locate logfile location"
\* NotImplementedError(f"Unsupported platform: ...")
UNSUPPORTED_PLATFORM_EXCEPTION == "NotImplementedError: Unsupported platform"
\* TypeError(f"Unsupported path type: ...")
UNSUPPORTED_PATH_TYPE_EXCEPTION == "TypeError: Unsupported path type"
\* ValueError(f"Provided file does not exist at ...")
FILE_DOES_NOT_EXIST_EXCEPTION == "ValueError: Provided file does not exist"
\* What threading.Thread.join raises on the thread that is being joined.
CANNOT_JOIN_CURRENT_THREAD == "RuntimeError: cannot join current thread"
\* What threading.Thread.join raises for a thread that start() was not called on.
CANNOT_JOIN_UNSTARTED_THREAD == "RuntimeError: cannot join thread before it is started"
\* What a call on self.event_handler raises once it has been set to None,
\* and what self.observer raises when __init__ never assigned it.
ATTRIBUTE_ERROR == "AttributeError"
NoError == "none"
\* Python's None.
None == [type |-> "NoneType"]

\* ----------------------------------------------------------------- paths
Parent(p) == SubSeq(p, 1, Len(p) - 1)
Name(p) == p[Len(p)]
Join(p, name) == Append(p, name)
IsPrefix(p, q) == Len(p) <= Len(q) /\ SubSeq(q, 1, Len(p)) = p

RECURSIVE Str(_)
\* str(path): the components joined by the separator.
Str(p) == IF Len(p) = 0 THEN "" ELSE Str(Parent(p)) \o "/" \o Name(p)

\* The directories of the model: /tmp, /link (a symbolic link to /tmp), the
\* user's home and the roaming application data below it.
TmpDir == <<"tmp">>
LinkDir == <<"link">>
HomeDir == <<"Users", "u">>
RoamingDir == <<"Users", "u", "AppData", "Roaming">>

\* Path.resolve(): symbolic links are replaced by what they point to.
Resolve(p) ==
    IF IsPrefix(LinkDir, p)
    THEN TmpDir \o SubSeq(p, Len(LinkDir) + 1, Len(p))
    ELSE p

\* ----------------------------------------------------------------- state
VARIABLES
    platform,       \* platform.system()
    environ,        \* os.environ: a function from the names that are set to their values
    fs,             \* the paths that exist (a directory exists when anything below it does)
    constructed,    \* "no", "ok" (ArenaLog.__init__ returned) or "failed" (it raised)
    path,           \* self.path
    observer,       \* self.observer: an index of observers, 0 before it is assigned
    event_handler,  \* self.event_handler: a FileEventHandler, or None
    follow_current, \* self.follow_current
    observers,      \* the observer objects created so far, in creation order
    last,           \* the last call: what it was, on which thread, what it raised
    running         \* the calls in progress when calls interleave: where
                    \* handle_log_moved is on the observer's thread, where
                    \* __del__ is on the caller's thread, the steps taken

vars ==
    << platform, environ, fs, constructed, path, observer, event_handler,
       follow_current, observers, last, running >>

\* Path.exists() after resolving links.
Exists(p) == \E q \in fs : IsPrefix(Resolve(p), q)

\* ------------------------------------------------------------ PathResolver
LocalLowDir ==
    IF "appdata" \in DOMAIN environ
    THEN Join(Parent(environ["appdata"]), "LocalLow")
    ELSE Join(Join(HomeDir, "AppData"), "LocalLow")

DefaultLogfile ==
    Join(Join(Join(LocalLowDir, COMPANY_SUBFOLDER_NAME), APPLICATION_SUBFOLDER_NAME),
         CURRENT_LOGFILE_NAME)

\* Mutant: the platform is not tested, the Windows location is tried everywhere.
find_logfile_any_platform ==
    IF ~Exists(LocalLowDir)
    THEN [err |-> NO_LOGFILE_FOUND_EXCEPTION, path |-> <<>>]
    ELSE IF ~Exists(DefaultLogfile)
         THEN [err |-> NO_LOGFILE_FOUND_EXCEPTION, path |-> <<>>]
         ELSE [err |-> NoError, path |-> Resolve(DefaultLogfile)]

\* ArenaLog.find_logfile: [err, path].
find_logfile ==
    IF platform = WINDOWS_PLATFORM_IDENTIFIER
    THEN IF ~Exists(LocalLowDir)
         THEN [err |-> NO_LOGFILE_FOUND_EXCEPTION, path |-> <<>>]
         ELSE IF ~Exists(DefaultLogfile)
              THEN [err |-> NO_LOGFILE_FOUND_EXCEPTION, path |-> <<>>]
              ELSE [err |-> NoError, path |-> Resolve(DefaultLogfile)]
    ELSE [err |-> UNSUPPORTED_PLATFORM_EXCEPTION, path |-> <<>>]

\* --------------------------------------------------------------- observers
\* A watchdog observer object.  started: Thread.start() was called; alive:
\* Thread.is_alive(); stop_requested: stop() was called; watches: what
\* schedule() registered; quiesces: whether the thread ends once stop() was
\* called (a caller-supplied observer may report alive after stop and join).
NewObserver(kind, quiesces) ==
    [kind |-> kind, started |-> FALSE, alive |-> FALSE, stop_requested |-> FALSE,
     watches |-> {}, quiesces |-> quiesces]

\* ArenaLog.get_watchdog_observer: the observer object it returns.
get_watchdog_observer ==
    IF platform = WINDOWS_PLATFORM_IDENTIFIER
    THEN [kind |-> "PollingObserver", timeout |-> DEFAULT_POLLING_OBSERVER_INTERVAL,
          started |-> FALSE, alive |-> FALSE, stop_requested |-> FALSE,
          watches |-> {}, quiesces |-> TRUE]
    ELSE NewObserver("Observer", TRUE)

\* The tracker's fields and the observers, as the methods below read and
\* write them; err is the exception in flight, calls the observer calls made.
Self ==
    [path |-> path, observer |-> observer, event_handler |-> event_handler,
     follow_current |-> follow_current, observers |-> observers,
     err |-> NoError, calls |-> <<>>, delivered |-> <<>>]

Raise(m, e) == [m EXCEPT !.err = e]

\* self.observer = <a new observer object>
AssignObserver(m, ob) ==
    IF m.err # NoError THEN m
    ELSE [m EXCEPT !.observers = Append(@, ob),
                   !.observer = Len(m.observers) + 1,
                   !.calls = Append(@, <<"create", Len(m.observers) + 1>>)]

\* Mutant: the watch is put on the tracked path itself, not on its parent.
ObserverSchedule_on_path(m) ==
    IF m.err # NoError THEN m
    ELSE [m EXCEPT !.observers[m.observer].watches =
                       @ \cup {[handler |-> m.event_handler, dir |-> m.path,
                                recursive |-> FALSE]},
                   !.calls = Append(@, <<"schedule", m.observer>>)]

\* self.observer.schedule(self.event_handler, self.path.parent, recursive=False)
ObserverSchedule(m) ==
    IF m.err # NoError THEN m
    ELSE [m EXCEPT !.observers[m.observer].watches =
                       @ \cup {[handler |-> m.event_handler, dir |-> Parent(m.path),
                                recursive |-> FALSE]},
                   !.calls = Append(@, <<"schedule", m.observer>>)]

\* self.observer.start()
ObserverStart(m) ==
    IF m.err # NoError THEN m
    ELSE [m EXCEPT !.observers[m.observer].started = TRUE,
                   !.observers[m.observer].alive = TRUE,
                   !.calls = Append(@, <<"start", m.observer>>)]

\* self.observer.stop(): the stop flag is set and every watch unscheduled.
ObserverStop(m) ==
    IF m.err # NoError THEN m
    ELSE IF m.observer = 0 THEN Raise(m, ATTRIBUTE_ERROR)
    ELSE [m EXCEPT !.observers[m.observer].stop_requested = TRUE,
                   !.observers[m.observer].watches = {},
                   !.calls = Append(@, <<"stop", m.observer>>)]

\* self.observer.join() on thread ctx (0: the caller's thread; i: the thread
\* of observer i).  A thread that was not started cannot be joined, and a
\* thread cannot join itself; otherwise join returns once
\* the observer's thread has ended, or at once for an observer that does not
\* quiesce.
ObserverJoin(m, ctx) ==
    IF m.err # NoError THEN m
    ELSE IF ~m.observers[m.observer].started
         THEN [m EXCEPT !.err = CANNOT_JOIN_UNSTARTED_THREAD,
                        !.calls = Append(@, <<"join", m.observer>>)]
    ELSE IF ctx = m.observer
         THEN [m EXCEPT !.err = CANNOT_JOIN_CURRENT_THREAD,
                        !.calls = Append(@, <<"join", m.observer>>)]
         ELSE [m EXCEPT !.observers[m.observer].alive =
                            IF m.observers[m.observer].quiesces THEN FALSE ELSE @,
                        !.calls = Append(@, <<"join", m.observer>>)]

\* self.find_logfile() was called.
Asked(m) == [m EXCEPT !.calls = Append(@, <<"find_logfile", 0>>)]

\* Mutant: the is_alive test after the join is left out.
CheckStopped_never_raises(m) == m

\* if self.observer.is_alive(): raise UNABLE_TO_STOP_OBSERVER_EXCEPTION
CheckStopped(m) ==
    IF m.err # NoError THEN m
    ELSE IF m.observers[m.observer].alive
         THEN Raise(m, UNABLE_TO_STOP_OBSERVER_EXCEPTION)
         ELSE m

\* ---------------------------------------------------------------- ArenaLog
\* Mutant: the handler is discarded and the observer is never stopped.
handle_log_deleted_forgets_stop(m, ctx) ==
    IF m.err # NoError THEN m ELSE [m EXCEPT !.event_handler = None]

\* ArenaLog.handle_log_deleted, called on thread ctx.
handle_log_deleted(m, ctx) ==
    LET stopped == CheckStopped(ObserverJoin(ObserverStop(m), ctx))
    IN  IF stopped.err # NoError THEN stopped
        ELSE [stopped EXCEPT !.event_handler = None]

\* Mutant: the observer of a rotation is always the event-driven one.
handle_log_moved_native_observer(m, ctx) ==
    IF m.follow_current
    THEN LET found == find_logfile
             moved == IF found.err # NoError THEN Raise(Asked(m), found.err)
                      ELSE [Asked(m) EXCEPT !.path = found.path]
             stopped == CheckStopped(ObserverJoin(ObserverStop(moved), ctx))
         IN  ObserverStart(ObserverSchedule(AssignObserver(stopped, NewObserver("Observer", TRUE))))
    ELSE handle_log_deleted(m, ctx)

\* Mutant: the old observer is stopped and joined before the path is
\* resolved again.
handle_log_moved_stop_first(m, ctx) ==
    IF m.follow_current
    THEN LET stopped == CheckStopped(ObserverJoin(ObserverStop(m), ctx))
             found == find_logfile
             moved == IF stopped.err # NoError THEN stopped
                      ELSE IF found.err # NoError THEN Raise(Asked(stopped), found.err)
                      ELSE [Asked(stopped) EXCEPT !.path = found.path]
         IN  ObserverStart(ObserverSchedule(AssignObserver(moved, get_watchdog_observer)))
    ELSE handle_log_deleted(m, ctx)

\* Mutant: an old observer that is still alive after the join is put up
\* with: nothing is raised and nothing more is done.
handle_log_moved_swallows_shutdown_error(m, ctx) ==
    IF m.follow_current
    THEN LET found == find_logfile
             moved == IF found.err # NoError THEN Raise(Asked(m), found.err)
                      ELSE [Asked(m) EXCEPT !.path = found.path]
             joined == ObserverJoin(ObserverStop(moved), ctx)
         IN  IF joined.err = NoError /\ joined.observers[joined.observer].alive
             THEN joined
             ELSE ObserverStart(ObserverSchedule(AssignObserver(joined, get_watchdog_observer)))
    ELSE handle_log_deleted(m, ctx)

\* Mutant: the new observer is created without testing that the old one
\* has ended.
handle_log_moved_no_alive_check(m, ctx) ==
    IF m.follow_current
    THEN LET found == find_logfile
             moved == IF found.err # NoError THEN Raise(Asked(m), found.err)
                      ELSE [Asked(m) EXCEPT !.path = found.path]
             stopped == ObserverJoin(ObserverStop(moved), ctx)
         IN  ObserverStart(ObserverSchedule(AssignObserver(stopped, get_watchdog_observer)))
    ELSE handle_log_deleted(m, ctx)

\* ArenaLog.handle_log_moved, called on thread ctx.
handle_log_moved(m, ctx) ==
    IF m.follow_current
    THEN LET found == find_logfile
             moved == IF found.err # NoError THEN Raise(Asked(m), found.err)
                      ELSE [Asked(m) EXCEPT !.path = found.path]
             stopped == CheckStopped(ObserverJoin(ObserverStop(moved), ctx))
         IN  ObserverStart(ObserverSchedule(AssignObserver(stopped, get_watchdog_observer)))
    ELSE handle_log_deleted(m, ctx)

\* Mutant: teardown skips an observer that is no longer alive.
ArenaLog_del_guarded(m, ctx) ==
    IF m.observer # 0 /\ ~m.observers[m.observer].alive THEN m
    ELSE CheckStopped(ObserverJoin(ObserverStop(m), ctx))

\* ArenaLog.__del__, called on thread ctx.
ArenaLog_del(m, ctx) ==
    CheckStopped(ObserverJoin(ObserverStop(m), ctx))

\* ------------------------------------------------------- FileEventHandler
\* Mutant: the tracked file's own name is not among the patterns.
FileEventHandler_without_parent_name(parent_path) ==
    [type |-> "FileEventHandler",
     patterns |-> {CURRENT_LOGFILE_NAME, PREVIOUS_LOGFILE_NAME},
     ignore_directories |-> TRUE]

\* FileEventHandler.__init__: the handler object, with the patterns it keeps.
FileEventHandler(parent_path) ==
    [type |-> "FileEventHandler",
     patterns |-> {CURRENT_LOGFILE_NAME, PREVIOUS_LOGFILE_NAME, Name(parent_path)},
     ignore_directories |-> TRUE]

\* An event of watchdog: dest is the empty path unless the event is a move.
\* event.src_path and event.dest_path are strings.
SrcPath(event) == Str(event.src)

\* PatternMatchingEventHandler's test: a pattern that is a bare file name
\* matches a path that ends in it; the source and the destination both count.
MatchAnyPaths(handler, event) ==
    \/ Name(event.src) \in handler.patterns
    \/ (Len(event.dest) > 0 /\ Name(event.dest) \in handler.patterns)

\* FileEventHandler.on_moved
on_moved(m, ctx) == handle_log_moved(m, ctx)

\* FileEventHandler.on_deleted
on_deleted(m, ctx) == handle_log_deleted(m, ctx)

\* Mutant: a Created event is taken for a rotation, as a Moved one is.
DispatchToMethods_created_rotates(m, event, ctx) ==
    LET any == [m EXCEPT !.delivered = Append(@, "on_any_event")]
    IN  CASE event.event_type \in {"moved", "created"} ->
                on_moved([any EXCEPT !.delivered = Append(@, "on_" \o event.event_type)], ctx)
          [] event.event_type = "deleted" ->
                on_deleted([any EXCEPT !.delivered = Append(@, "on_deleted")], ctx)
          [] OTHER -> [any EXCEPT !.delivered = Append(@, "on_" \o event.event_type)]

\* FileSystemEventHandler.dispatch as PatternMatchingEventHandler reaches it:
\* on_any_event, then the method of the event's type.
DispatchToMethods(m, event, ctx) ==
    LET any == [m EXCEPT !.delivered = Append(@, "on_any_event")]
    IN  CASE event.event_type = "moved" ->
                on_moved([any EXCEPT !.delivered = Append(@, "on_moved")], ctx)
          [] event.event_type = "deleted" ->
                on_deleted([any EXCEPT !.delivered = Append(@, "on_deleted")], ctx)
          [] OTHER -> [any EXCEPT !.delivered = Append(@, "on_" \o event.event_type)]

\* Mutant: the source path is not compared with the tracked path, the
\* patterns alone decide.
dispatch_without_path_test(m, handler, event, ctx) ==
    IF event.is_directory THEN m
    ELSE IF handler.ignore_directories /\ event.is_directory THEN m
    ELSE IF MatchAnyPaths(handler, event) THEN DispatchToMethods(m, event, ctx)
    ELSE m

\* FileEventHandler.dispatch, called with the handler object on thread ctx.
dispatch(m, handler, event, ctx) ==
    IF event.is_directory THEN m
    ELSE IF SrcPath(event) # "" /\ SrcPath(event) # Str(m.path) THEN m
    ELSE IF handler.ignore_directories /\ event.is_directory THEN m
    ELSE IF MatchAnyPaths(handler, event) THEN DispatchToMethods(m, event, ctx)
    ELSE m

\* ------------------------------------------------------------ construction
\* The arguments of ArenaLog(path, observer, follow_current).
PathArgs ==
    {None, [type |-> "str", value |-> <<>>], [type |-> "int", value |-> 5]}
    \cup {[type |-> t, value |-> Join(d, n)] :
            t \in {"str", "Path"}, d \in {TmpDir, LinkDir},
            n \in {CURRENT_LOGFILE_NAME, "custom.log"}}
ObserverArgs ==
    {None} \cup {[type |-> "BaseObserver", quiesces |-> q] : q \in BOOLEAN}

\* `not path`: None and the empty string are false.
Falsy(arg) == arg.type = "NoneType" \/ (arg.type = "str" /\ arg.value = <<>>)

\* Mutant: the observer is created, scheduled and started before the path
\* is tested for existence.
ArenaLog_init_starts_first(path_arg, observer_arg, follow) ==
    LET fresh == [path |-> <<>>, observer |-> 0, event_handler |-> None,
                  follow_current |-> FALSE, observers |-> observers,
                  err |-> NoError, calls |-> <<>>, delivered |-> <<>>]
        found == find_logfile
        given == IF Falsy(path_arg)
                 THEN IF found.err # NoError THEN Raise(Asked(fresh), found.err)
                      ELSE [Asked(fresh) EXCEPT !.path = found.path]
                 ELSE IF path_arg.type \in {"str", "Path"}
                      THEN [fresh EXCEPT !.path = path_arg.value]
                      ELSE Raise(fresh, UNSUPPORTED_PATH_TYPE_EXCEPTION)
        resolved == IF given.err # NoError THEN given
                    ELSE [given EXCEPT !.path = Resolve(@)]
        observed == IF observer_arg.type = "NoneType"
                    THEN AssignObserver(resolved, get_watchdog_observer)
                    ELSE AssignObserver(resolved, NewObserver("Custom", observer_arg.quiesces))
        wired == IF observed.err # NoError THEN observed
                 ELSE [observed EXCEPT !.event_handler = FileEventHandler(observed.path),
                                       !.follow_current = follow]
        started == ObserverStart(ObserverSchedule(wired))
    IN  IF started.err # NoError THEN started
        ELSE IF ~Exists(started.path)
             THEN Raise(started, FILE_DOES_NOT_EXIST_EXCEPTION)
             ELSE started

\* ArenaLog.__init__ on a fresh object.
ArenaLog_init(path_arg, observer_arg, follow) ==
    LET fresh == [path |-> <<>>, observer |-> 0, event_handler |-> None,
                  follow_current |-> FALSE, observers |-> observers,
                  err |-> NoError, calls |-> <<>>, delivered |-> <<>>]
        found == find_logfile
        given == IF Falsy(path_arg)
                 THEN IF found.err # NoError THEN Raise(Asked(fresh), found.err)
                      ELSE [Asked(fresh) EXCEPT !.path = found.path]
                 ELSE IF path_arg.type \in {"str", "Path"}
                      THEN [fresh EXCEPT !.path = path_arg.value]
                      ELSE Raise(fresh, UNSUPPORTED_PATH_TYPE_EXCEPTION)
        resolved == IF given.err # NoError THEN given
                    ELSE [given EXCEPT !.path = Resolve(@)]
        checked == IF resolved.err # NoError THEN resolved
                   ELSE IF ~Exists(resolved.path)
                        THEN Raise(resolved, FILE_DOES_NOT_EXIST_EXCEPTION)
                        ELSE resolved
        observed == IF observer_arg.type = "NoneType"
                    THEN AssignObserver(checked, get_watchdog_observer)
                    ELSE AssignObserver(checked, NewObserver("Custom", observer_arg.quiesces))
        wired == IF observed.err # NoError THEN observed
                 ELSE [observed EXCEPT !.event_handler = FileEventHandler(observed.path),
                                       !.follow_current = follow]
    IN  ObserverStart(ObserverSchedule(wired))

\* ----------------------------------------------------------------- actions
NoEvent == [event_type |-> "none", is_directory |-> FALSE, src |-> <<>>, dest |-> <<>>]

Alive(obs) == {i \in 1..Len(obs) : obs[i].alive}

\* What a call leaves behind: the tracker's fields, the observers, and the
\* record of the call (before: the tracker as the call found it).
Apply(m, op, ctx, event) ==
    /\ Len(m.observers) <= MaxObservers
    /\ path' = m.path
    /\ observer' = m.observer
    /\ event_handler' = m.event_handler
    /\ follow_current' = m.follow_current
    /\ observers' = m.observers
    /\ last' = [op |-> op, ctx |-> ctx, event |-> event, err |-> m.err,
                calls |-> m.calls, delivered |-> m.delivered,
                found |-> find_logfile,
                before |-> [path |-> path, observer |-> observer,
                            event_handler |-> event_handler, alive |-> Alive(observers)]]
    /\ UNCHANGED << platform, environ, fs >>

\* A call that runs from its first statement to its last with no other
\* thread in between.
Commit(m, op, ctx, event) ==
    /\ Apply(m, op, ctx, event)
    /\ UNCHANGED running

\* al = ArenaLog(path, observer, follow_current)
Construct ==
    /\ constructed = "no"
    /\ \E path_arg \in PathArgs, observer_arg \in ObserverArgs, follow \in BOOLEAN :
          LET m == ArenaLog_init(path_arg, observer_arg, follow)
          IN  /\ constructed' = IF m.err = NoError THEN "ok" ELSE "failed"
              /\ Commit(m, "__init__", 0, NoEvent)

\* al.handle_log_moved() on the caller's thread
CallHandleLogMoved ==
    /\ constructed = "ok"
    /\ Commit(handle_log_moved(Self, 0), "handle_log_moved", 0, NoEvent)
    /\ UNCHANGED constructed

\* al.handle_log_deleted() on the caller's thread
CallHandleLogDeleted ==
    /\ constructed = "ok"
    /\ Commit(handle_log_deleted(Self, 0), "handle_log_deleted", 0, NoEvent)
    /\ UNCHANGED constructed

\* al.__del__() on the caller's thread; the finalizer also runs on an object
\* whose __init__ raised.
Teardown ==
    /\ constructed \in {"ok", "failed"}
    /\ Commit(ArenaLog_del(Self, 0), "__del__", 0, NoEvent)
    /\ UNCHANGED constructed

\* The events an observer can report for a directory it watches.
EventNames == {CURRENT_LOGFILE_NAME, PREVIOUS_LOGFILE_NAME, "custom.log"}
Events(dir) ==
    {[event_type |-> t, is_directory |-> isdir, src |-> Join(dir, n), dest |-> <<>>] :
        t \in {"created", "modified", "deleted"}, isdir \in BOOLEAN, n \in EventNames}
    \cup
    {[event_type |-> "moved", is_directory |-> isdir, src |-> Join(dir, nn[1]),
      dest |-> Join(dir, nn[2])] :
        isdir \in BOOLEAN, nn \in {x \in EventNames \X EventNames : x[1] # x[2]}}

\* The run loop of observer o after one event: an exception that leaves the
\* handler ends the thread, and so does the stop flag.
ThreadAfter(m, o) ==
    IF m.err # NoError \/ (m.observers[o].stop_requested /\ m.observers[o].quiesces)
    THEN [m EXCEPT !.observers[o].alive = FALSE]
    ELSE m

\* Observer o delivers an event of a watched directory to the watch's
\* handler, on o's own thread.
Deliver ==
    /\ constructed = "ok"
    /\ \E o \in Alive(observers) :
          \E w \in observers[o].watches :
             \E event \in Events(w.dir) :
                LET m == IF w.handler = None
                         THEN Raise(Self, ATTRIBUTE_ERROR)
                         ELSE dispatch(Self, w.handler, event, o)
                IN  Commit(ThreadAfter(m, o), "dispatch", o, event)
    /\ UNCHANGED constructed

\* ------------------------------------------------------------- environment
StdLocalLow == <<"Users", "u", "AppData", "LocalLow">>
StdLogDir == Join(Join(StdLocalLow, COMPANY_SUBFOLDER_NAME), APPLICATION_SUBFOLDER_NAME)
LogDirs == {TmpDir, StdLogDir}

InitialFilesystems ==
    {{TmpDir} \cup tmp \cup std :
        tmp \in {{Join(TmpDir, CURRENT_LOGFILE_NAME)}, {Join(TmpDir, "custom.log")},
                 {Join(TmpDir, CURRENT_LOGFILE_NAME), Join(TmpDir, "custom.log")}},
        std \in {{}, {StdLocalLow}, {StdLogDir, Join(StdLogDir, CURRENT_LOGFILE_NAME)}}}

EnvStep(what) ==
    /\ last' = [op |-> what, ctx |-> 0, event |-> NoEvent, err |-> NoError,
                calls |-> <<>>, delivered |-> <<>>, found |-> find_logfile,
                before |-> [path |-> path, observer |-> observer,
                            event_handler |-> event_handler, alive |-> Alive(observers)]]
    /\ UNCHANGED << platform, environ, constructed, path, observer, event_handler,
                    follow_current, observers, running >>

\* Arena rotates its log: Player.log is renamed to Player-prev.log ...
ArenaRotatesLog ==
    /\ \E d \in LogDirs :
          /\ Join(d, CURRENT_LOGFILE_NAME) \in fs
          /\ fs' = (fs \ {Join(d, CURRENT_LOGFILE_NAME)}) \cup {d, Join(d, PREVIOUS_LOGFILE_NAME)}
    /\ EnvStep("rotate")

\* ... and a new Player.log is started.
ArenaCreatesLog ==
    /\ \E d \in LogDirs :
          /\ Join(d, PREVIOUS_LOGFILE_NAME) \in fs
          /\ Join(d, CURRENT_LOGFILE_NAME) \notin fs
          /\ fs' = fs \cup {Join(d, CURRENT_LOGFILE_NAME)}
    /\ EnvStep("create")

\* The tracked file is deleted.
TrackedFileDeleted ==
    /\ constructed = "ok"
    /\ path \in fs
    /\ fs' = (fs \ {path}) \cup {Parent(path)}
    /\ EnvStep("delete")

\* ----------------------------------------------------------- specification
Init ==
    /\ platform \in {WINDOWS_PLATFORM_IDENTIFIER, "Linux"}
    /\ environ \in {<< >>, [name \in {"appdata"} |-> RoamingDir]}
    /\ fs \in InitialFilesystems
    /\ constructed = "no"
    /\ path = <<>>
    /\ observer = 0
    /\ event_handler = None
    /\ follow_current = FALSE
    /\ observers = <<>>
    /\ last = [op |-> "none", ctx |-> 0, event |-> NoEvent, err |-> NoError,
               calls |-> <<>>, delivered |-> <<>>, found |-> find_logfile,
               before |-> [path |-> <<>>, observer |-> 0, event_handler |-> None,
                           alive |-> {}]]
    /\ running = [rot |-> [pc |-> "idle", ctx |-> 0, err |-> NoError],
                  del |-> [pc |-> "idle", err |-> NoError],
                  log |-> <<>>]

Next ==
    \/ Construct
    \/ CallHandleLogMoved
    \/ CallHandleLogDeleted
    \/ Teardown
    \/ Deliver
    \/ ArenaRotatesLog
    \/ ArenaCreatesLog
    \/ TrackedFileDeleted

Spec == Init /\ [][Next]_vars

\* ------------------------------------------------- calls that interleave
\* handle_log_moved runs on the observer's thread while __del__ runs on the
\* caller's thread; each step below is one statement, and each statement
\* reads self.observer anew.

\* Mutant: the old observer is stopped but neither joined nor tested before
\* the new one is made.
handle_log_moved_step_without_shutdown(m, pc, ctx) ==
    LET after ==
            CASE pc = "find" ->
                    IF find_logfile.err # NoError
                    THEN Raise(Asked(m), find_logfile.err)
                    ELSE [Asked(m) EXCEPT !.path = find_logfile.path]
              [] pc = "stop" -> ObserverStop(m)
              [] pc = "join" -> ObserverJoin(m, ctx)
              [] pc = "is_alive" -> CheckStopped(m)
              [] pc = "create" -> AssignObserver(m, get_watchdog_observer)
              [] pc = "schedule" -> ObserverSchedule(m)
              [] pc = "start" -> ObserverStart(m)
              [] OTHER -> [m EXCEPT !.event_handler = None]
        then ==
            CASE pc = "find" -> "stop"
              [] pc = "stop" -> IF m.follow_current THEN "create" ELSE "join"
              [] pc = "join" -> "is_alive"
              [] pc = "is_alive" -> IF m.follow_current THEN "create" ELSE "forget"
              [] pc = "create" -> "schedule"
              [] pc = "schedule" -> "start"
              [] OTHER -> "done"
    IN  [m |-> after, pc |-> IF after.err # NoError THEN "done" ELSE then]

\* One statement of ArenaLog.handle_log_moved on thread ctx: the tracker
\* after it, and the statement that comes next.  With follow_current false
\* the statements are those of handle_log_deleted.
handle_log_moved_step(m, pc, ctx) ==
    LET after ==
            CASE pc = "find" ->
                    IF find_logfile.err # NoError
                    THEN Raise(Asked(m), find_logfile.err)
                    ELSE [Asked(m) EXCEPT !.path = find_logfile.path]
              [] pc = "stop" -> ObserverStop(m)
              [] pc = "join" -> ObserverJoin(m, ctx)
              [] pc = "is_alive" -> CheckStopped(m)
              [] pc = "create" -> AssignObserver(m, get_watchdog_observer)
              [] pc = "schedule" -> ObserverSchedule(m)
              [] pc = "start" -> ObserverStart(m)
              [] OTHER -> [m EXCEPT !.event_handler = None]
        then ==
            CASE pc = "find" -> "stop"
              [] pc = "stop" -> "join"
              [] pc = "join" -> "is_alive"
              [] pc = "is_alive" -> IF m.follow_current THEN "create" ELSE "forget"
              [] pc = "create" -> "schedule"
              [] pc = "schedule" -> "start"
              [] OTHER -> "done"
    IN  [m |-> after, pc |-> IF after.err # NoError THEN "done" ELSE then]

\* One statement of ArenaLog.__del__ on thread ctx.
ArenaLog_del_step(m, pc, ctx) ==
    LET after ==
            CASE pc = "stop" -> ObserverStop(m)
              [] pc = "join" -> ObserverJoin(m, ctx)
              [] OTHER -> CheckStopped(m)
        then ==
            CASE pc = "stop" -> "join"
              [] pc = "join" -> "is_alive"
              [] OTHER -> "done"
    IN  [m |-> after, pc |-> IF after.err # NoError THEN "done" ELSE then]

\* The thread of observer o is inside a callback.
Busy(o) == running.rot.ctx = o /\ running.rot.pc \notin {"idle", "done"}

\* self.observer.join() on thread ctx returns or raises now; it waits while
\* the joined thread runs: inside a callback, or with no stop asked for.
JoinReturns(pc, ctx) ==
    (/\ pc = "join" /\ observer # 0 /\ observer # ctx
     /\ observers[observer].started /\ observers[observer].alive
     /\ observers[observer].quiesces)
        => (observers[observer].stop_requested /\ ~Busy(observer))

\* Observer o hands a Moved event on the tracked file to the handler, which
\* enters on_moved and so handle_log_moved, on o's thread.
BeginRotation ==
    /\ constructed = "ok"
    /\ running.rot.pc = "idle"
    /\ \E o \in Alive(observers) :
          \E w \in observers[o].watches :
             \E event \in Events(w.dir) :
                /\ w.handler # None
                /\ event.event_type = "moved"
                /\ "on_moved" \in
                      {dispatch(Self, w.handler, event, o).delivered[k] :
                          k \in 1..Len(dispatch(Self, w.handler, event, o).delivered)}
                /\ running' = [running EXCEPT
                                  !.rot = [pc |-> IF follow_current THEN "find" ELSE "stop",
                                           ctx |-> o, err |-> NoError],
                                  !.log = Append(@, <<"handle_log_moved", "on_moved">>)]
    /\ UNCHANGED << platform, environ, fs, constructed, path, observer, event_handler,
                    follow_current, observers, last >>

\* The next statement of handle_log_moved; after the last one, or the one
\* that raised, the callback is left and the observer's run loop goes on.
RotationStep ==
    /\ running.rot.pc \notin {"idle", "done"}
    /\ JoinReturns(running.rot.pc, running.rot.ctx)
    /\ LET ctx == running.rot.ctx
           r == handle_log_moved_step(Self, running.rot.pc, ctx)
           m == IF r.pc = "done" THEN ThreadAfter(r.m, ctx) ELSE r.m
       IN  /\ Apply(m, "handle_log_moved", ctx, NoEvent)
           /\ running' = [running EXCEPT
                             !.rot.pc = r.pc, !.rot.err = r.m.err,
                             !.log = Append(@, <<"handle_log_moved", running.rot.pc>>)]
    /\ UNCHANGED constructed

\* The caller's thread enters __del__.
BeginTeardown ==
    /\ constructed = "ok"
    /\ running.del.pc = "idle"
    /\ running' = [running EXCEPT !.del.pc = "stop",
                                  !.log = Append(@, <<"__del__", "enter">>)]
    /\ UNCHANGED << platform, environ, fs, constructed, path, observer, event_handler,
                    follow_current, observers, last >>

\* The next statement of __del__ on the caller's thread.
TeardownStep ==
    /\ running.del.pc \notin {"idle", "done"}
    /\ JoinReturns(running.del.pc, 0)
    /\ LET r == ArenaLog_del_step(Self, running.del.pc, 0)
       IN  /\ Apply(r.m, "__del__", 0, NoEvent)
           /\ running' = [running EXCEPT
                             !.del.pc = r.pc, !.del.err = r.m.err,
                             !.log = Append(@, <<"__del__", running.del.pc>>)]
    /\ UNCHANGED constructed

NextConc ==
    \/ Construct
    \/ BeginRotation
    \/ RotationStep
    \/ BeginTeardown
    \/ TeardownStep

SpecConc == Init /\ [][NextConc]_vars

\* ------------------------------------------------------------------ claims
\* The WatchHandles that are active: the observers started and not ended.
ActiveHandles == Alive(observers)

\* TrackerState: Watching is the state in which a WatchHandle is alive.
TrackerState ==
    IF constructed # "ok" THEN "none"
    ELSE IF ActiveHandles # {} THEN "Watching" ELSE "Stopped"

Called(method) == \E k \in 1..Len(last.delivered) : last.delivered[k] = method
Made(call, o) == \E k \in 1..Len(last.calls) : last.calls[k] = <<call, o>>
Created == \E k \in 1..Len(last.calls) : last.calls[k][1] = "create"

\* The last step was an observer handing the handler a Moved (Deleted) event
\* on the tracked file, which the handler passed on to on_moved (on_deleted).
MovedHandled == last.op = "dispatch" /\ Called("on_moved")
DeletedHandled == last.op = "dispatch" /\ Called("on_deleted")

\* C1: after a Moved event on the tracked file is handled with
\* follow_current true and a resolvable current-log file, the tracker is
\* Watching, TrackedPath is the newly resolved path, and exactly one
\* WatchHandle is active: the old one stopped, one new one started.
C1_MovedFollowedKeepsWatching ==
    (MovedHandled /\ follow_current /\ last.found.err = NoError)
        => /\ TrackerState = "Watching"
           /\ path = last.found.path
           /\ Cardinality(ActiveHandles) = 1
           /\ last.before.observer \notin ActiveHandles
           /\ Created

C3_AtMostOneWatchHandle ==
    /\ Cardinality(ActiveHandles) <= 1
    /\ \A k \in 1..Len(last.calls) :
          (last.calls[k][1] = "create" /\ last.before.observer # 0)
             => /\ \E i \in 1..(k - 1), j \in 1..(k - 1) :
                      /\ i < j
                      /\ last.calls[i] = <<"stop", last.before.observer>>
                      /\ last.calls[j] = <<"join", last.before.observer>>
                /\ last.before.observer \notin ActiveHandles

C3_Witness ==
    /\ last.op = "handle_log_moved"
    /\ last.before.alive # {}
    /\ Created
    /\ Cardinality(ActiveHandles) = 1
    /\ ActiveHandles # last.before.alive

\* C4: Stopped is terminal: once the tracker is Stopped no later call or
\* event creates or starts a WatchHandle or returns it to Watching.
C4_StoppedIsTerminal ==
    (constructed = "ok" /\ last.before.observer # 0 /\ last.before.alive = {})
        => (TrackerState = "Stopped" /\ ~Created)

\* The last step was an observer handing an event to a FileEventHandler
\* (and not to the None that handle_log_deleted leaves in its place).
Filtered == last.op = "dispatch" /\ last.err # ATTRIBUTE_ERROR
Delivered == Len(last.delivered) > 0
TrackerUnchanged ==
    /\ path = last.before.path
    /\ observer = last.before.observer
    /\ event_handler = last.before.event_handler
    /\ ActiveHandles = last.before.alive
    /\ last.calls = <<>>
    /\ last.err = NoError

\* C5 as claimed: a non-directory event is delivered iff its source path is
\* the tracked path, or its basename is Player.log, or its basename is
\* Player-prev.log.
C5_DeliversLogNames ==
    (Filtered /\ ~last.event.is_directory)
        => (Delivered <=> \/ last.event.src = last.before.path
                          \/ Name(last.event.src) = CURRENT_LOGFILE_NAME
                          \/ Name(last.event.src) = PREVIOUS_LOGFILE_NAME)

\* C5 as amended: an event is delivered iff it is not a directory event and
\* its source path is the tracked path; an event for a file named Player.log
\* or Player-prev.log that is not the tracked file is dropped.
C5_DeliversTrackedPathOnly ==
    Filtered
        => (Delivered <=> /\ ~last.event.is_directory
                          /\ Str(last.event.src) = Str(last.before.path))

C5_Witness ==
    /\ Filtered /\ ~last.event.is_directory
    /\ Name(last.event.src) = PREVIOUS_LOGFILE_NAME
    /\ Name(last.before.path) = "custom.log"
    /\ ~Delivered

\* C6: every directory event is dropped, and so is every non-directory event
\* whose basename is neither Player.log, Player-prev.log nor the tracked
\* path's basename; a dropped event leaves the tracker as it was.
C6_DropsOutsidePredicate ==
    (Filtered /\ \/ last.event.is_directory
                 \/ Name(last.event.src) \notin
                       {CURRENT_LOGFILE_NAME, PREVIOUS_LOGFILE_NAME, Name(last.before.path)})
        => (~Delivered /\ TrackerUnchanged)

C6_Witness ==
    /\ Filtered /\ ~last.event.is_directory
    /\ last.event.event_type = "moved"
    /\ Name(last.event.src) = "custom.log"
    /\ Name(last.event.dest) = CURRENT_LOGFILE_NAME
    /\ Name(last.before.path) = CURRENT_LOGFILE_NAME
    /\ ~Delivered /\ TrackerState = "Watching"

\* C7: a tracker built on the explicit path /tmp/Player.log with
\* follow_current true, whose file was moved to /tmp/Player-prev.log and
\* started anew, is after handling the move Watching /tmp/Player.log with
\* one active handle, on /tmp.
C7_ExplicitPathFollowed ==
    (/\ last.op = "handle_log_moved" /\ follow_current
     /\ last.before.path = Join(TmpDir, CURRENT_LOGFILE_NAME)
     /\ last.before.alive # {}
     /\ observers[last.before.observer].quiesces
     /\ Join(TmpDir, CURRENT_LOGFILE_NAME) \in fs
     /\ Join(TmpDir, PREVIOUS_LOGFILE_NAME) \in fs)
        => /\ TrackerState = "Watching"
           /\ path = Join(TmpDir, CURRENT_LOGFILE_NAME)
           /\ Cardinality(ActiveHandles) = 1
           /\ \A o \in ActiveHandles : {w.dir : w \in observers[o].watches} = {TmpDir}

\* The last step was a teardown of a tracker that was Stopped already.
TeardownOfStopped ==
    /\ last.op = "__del__" /\ constructed = "ok"
    /\ last.before.observer # 0 /\ last.before.alive = {}

\* C8 as claimed: teardown of a Stopped tracker does not raise and makes no
\* further stop call to the backend.
C8_TeardownStopsOnce ==
    TeardownOfStopped
        => (last.err = NoError /\ ~Made("stop", last.before.observer))

\* C8 as amended: teardown of a Stopped tracker does not raise and leaves it
\* Stopped with no active handle, and it calls stop and join on the stopped
\* backend once more.
C8_TeardownOfStoppedIsHarmless ==
    TeardownOfStopped
        => /\ last.err = NoError
           /\ TrackerState = "Stopped"
           /\ last.calls = << <<"stop", last.before.observer>>,
                              <<"join", last.before.observer>> >>
           /\ event_handler = last.before.event_handler

C8_Witness ==
    /\ TeardownOfStopped
    /\ event_handler = None
    /\ last.err = NoError

\* C9: when the backend still reports active after stop and join have
\* returned, teardown and delete handling raise the shutdown error and the
\* tracker stays Watching, its handler not discarded.
C9_StuckBackendRaises ==
    (/\ last.op \in {"__del__", "handle_log_deleted", "handle_log_moved"}
     /\ constructed = "ok"
     /\ last.op = "handle_log_moved" => ~follow_current
     /\ Made("join", last.before.observer)
     /\ last.before.observer \in ActiveHandles)
        => /\ last.err = UNABLE_TO_STOP_OBSERVER_EXCEPTION
           /\ TrackerState = "Watching"
           /\ event_handler = last.before.event_handler
           /\ event_handler # None

C9_Witness ==
    /\ last.op = "handle_log_deleted"
    /\ last.err = UNABLE_TO_STOP_OBSERVER_EXCEPTION
    /\ TrackerState = "Watching"

\* C10: a construction that fails (wrong path type, path that does not
\* exist, no log file found, unsupported platform) has created, scheduled
\* and started no observer, and the tracker never becomes Watching.
C10_FailedConstructionStartsNothing ==
    /\ (last.op = "__init__" /\ last.err # NoError)
          => /\ constructed = "failed"
             /\ last.err \in {UNSUPPORTED_PATH_TYPE_EXCEPTION, FILE_DOES_NOT_EXIST_EXCEPTION,
                              NO_LOGFILE_FOUND_EXCEPTION, UNSUPPORTED_PLATFORM_EXCEPTION}
             /\ \A k \in 1..Len(last.calls) :
                   last.calls[k][1] \notin {"create", "schedule", "start"}
    /\ constructed = "failed"
          => (observers = <<>> /\ observer = 0 /\ TrackerState # "Watching")

C10_Witness ==
    /\ constructed = "failed"
    /\ last.op = "__init__"
    /\ last.err = FILE_DOES_NOT_EXIST_EXCEPTION

\* The last step was a rotation that ran to its end: a call of
\* handle_log_moved that replaced the observer and raised nothing.
Rotated ==
    /\ last.op \in {"handle_log_moved", "dispatch"}
    /\ Created /\ last.err = NoError
    /\ last.before.observer # 0

\* The strategy of a backend: polling, event-driven or caller-supplied.
Strategy(o) == observers[o].kind

\* C11 as claimed: after a rotation the backend in use has the strategy of
\* the backend it replaced, a caller-supplied one included.
C11_SameStrategyAfterRotation ==
    Rotated => Strategy(observer) = Strategy(last.before.observer)

\* C11 as amended: the backends the tracker selects itself all have the one
\* strategy its platform selects, at construction and at every rotation; a
\* caller-supplied backend is used until the first rotation, which replaces
\* it by the platform's.
C11_PlatformStrategyReapplied ==
    /\ \A i \in 1..Len(observers) :
          /\ i > 1 => Strategy(i) # "Custom"
          /\ Strategy(i) # "Custom"
                => Strategy(i) = IF platform = WINDOWS_PLATFORM_IDENTIFIER
                                 THEN "PollingObserver" ELSE "Observer"
    /\ \A i \in 1..Len(observers), j \in 1..Len(observers) :
          (Strategy(i) # "Custom" /\ Strategy(j) # "Custom")
             => observers[i].kind = observers[j].kind

C11_Witness ==
    /\ Rotated
    /\ Strategy(last.before.observer) = "Custom"
    /\ Strategy(observer) = "PollingObserver"
    /\ observer \in ActiveHandles

\* C12: a delivered Created or Modified event, one for Player.log included,
\* leaves the tracker's state, its path and its active handle as they were
\* and asks for no re-resolution: only Moved and Deleted events act.
C12_OnlyMovedAndDeletedAct ==
    (Filtered /\ last.event.event_type \in {"created", "modified"})
        => (TrackerUnchanged /\ ~Made("find_logfile", 0))

C12_Witness ==
    /\ Filtered /\ Called("on_created")
    /\ Name(last.event.src) = CURRENT_LOGFILE_NAME
    /\ TrackerState = "Watching"
    /\ last.found.err = NoError

\* C13 as claimed: on a platform other than the known one, construction
\* raises the unsupported-platform error, with or without an explicit path.
C13_UnknownPlatformFailsConstruction ==
    (last.op = "__init__" /\ platform # WINDOWS_PLATFORM_IDENTIFIER)
        => (last.err = UNSUPPORTED_PLATFORM_EXCEPTION /\ constructed = "failed")

\* C13 as amended: on a platform other than the known one, path resolution
\* raises the unsupported-platform error, so construction without an
\* explicit path raises it and starts nothing; backend selection does not
\* fail there, it selects the event-driven observer, and construction with
\* an explicit path raises that error never: with an existing path it
\* succeeds and starts a watch.
C13_UnknownPlatformFailsResolutionOnly ==
    (last.op = "__init__" /\ platform # WINDOWS_PLATFORM_IDENTIFIER)
        => /\ Made("find_logfile", 0)
                => /\ last.err = UNSUPPORTED_PLATFORM_EXCEPTION
                   /\ constructed = "failed" /\ observers = <<>>
           /\ ~Made("find_logfile", 0)
                => /\ last.err # UNSUPPORTED_PLATFORM_EXCEPTION
                   /\ last.err = NoError
                        => /\ constructed = "ok" /\ observer \in ActiveHandles
                           /\ Strategy(observer) \in {"Observer", "Custom"}

C13_Witness ==
    /\ last.op = "__init__" /\ platform # WINDOWS_PLATFORM_IDENTIFIER
    /\ last.err = NoError
    /\ Strategy(observer) = "Observer"
    /\ observer \in ActiveHandles

\* The last step was handle_log_moved with follow_current true, called by
\* the caller or by on_moved.
FollowedRotation ==
    /\ follow_current
    /\ (last.op = "handle_log_moved" \/ MovedHandled)

Position(call, o) ==
    IF Made(call, o)
    THEN CHOOSE k \in 1..Len(last.calls) : last.calls[k] = <<call, o>>
    ELSE 0

\* C14 as claimed: a rotation with follow_current true stops and joins the
\* current observer, then resolves the path, then makes the new observer:
\* find_logfile is called only after the stop and the join, and the path is
\* reassigned only once the old observer is no longer active.
C14_StopThenResolve ==
    FollowedRotation
        => /\ Made("find_logfile", 0)
                => /\ Made("stop", last.before.observer)
                   /\ Made("join", last.before.observer)
                   /\ Position("stop", last.before.observer) < Position("find_logfile", 0)
                   /\ Position("join", last.before.observer) < Position("find_logfile", 0)
           /\ path # last.before.path => last.before.observer \notin ActiveHandles

\* C14 as amended: a rotation with follow_current true resolves the path
\* and reassigns it first, while the old observer is still running, then
\* stops and joins the old observer, then creates, schedules and starts the
\* new one; nothing is stopped unless the resolution succeeded.
C14_ResolveThenStop ==
    FollowedRotation
        => /\ Len(last.calls) > 0 /\ last.calls[1] = <<"find_logfile", 0>>
           /\ Made("stop", last.before.observer)
                => /\ last.found.err = NoError /\ path = last.found.path
                   /\ last.calls[2] = <<"stop", last.before.observer>>
                   /\ last.calls[3] = <<"join", last.before.observer>>
           /\ last.err = NoError
                => last.calls = << <<"find_logfile", 0>>,
                                   <<"stop", last.before.observer>>,
                                   <<"join", last.before.observer>>,
                                   <<"create", observer>>,
                                   <<"schedule", observer>>,
                                   <<"start", observer>> >>

C14_Witness ==
    /\ FollowedRotation /\ last.err = NoError
    /\ last.before.alive = {last.before.observer}
    /\ path # last.before.path
    /\ ActiveHandles = {observer}

\* C15: the stop and join that Moved and Deleted handling perform inside
\* the observer's own delivery of the event run to completion: the handler
\* returns without an error, the old observer has ended, and a followed
\* rotation with a resolvable path has started the new observer.
C15_JoinOnDeliveryThreadCompletes ==
    (/\ last.op = "dispatch"
     /\ (Called("on_moved") \/ Called("on_deleted"))
     /\ Made("stop", last.before.observer))
        => /\ last.err = NoError
           /\ Made("join", last.before.observer)
           /\ last.before.observer \notin ActiveHandles
           /\ (Called("on_moved") /\ follow_current)
                 => (Created /\ observer \in ActiveHandles)

\* C16: a rotation whose old observer is still alive after the join raises
\* the unable-to-stop error to its caller and creates, schedules and starts
\* no observer, so that at most one observer is alive afterwards.
C16_FailedRotationStartsNothing ==
    (/\ FollowedRotation
     /\ Made("join", last.before.observer)
     /\ last.before.observer \in ActiveHandles)
        => /\ last.err = UNABLE_TO_STOP_OBSERVER_EXCEPTION
           /\ \A k \in 1..Len(last.calls) :
                 last.calls[k][1] \notin {"create", "schedule", "start"}
           /\ observer = last.before.observer
           /\ observers[observer].started
           /\ Len(observers) = Cardinality(last.before.alive)
           /\ ActiveHandles = {last.before.observer}

C16_Witness ==
    /\ FollowedRotation
    /\ last.err = UNABLE_TO_STOP_OBSERVER_EXCEPTION
    /\ Made("join", last.before.observer)
    /\ path # last.before.path
    /\ ActiveHandles = {observer}

\* C17: when find_logfile fails in a rotation with follow_current true, the
\* error reaches the caller and the tracker is as it was before: the path
\* is unchanged, no stop was issued and the observers that were alive are
\* still alive.
C17_FailedResolutionChangesNothing ==
    (FollowedRotation /\ last.found.err # NoError)
        => /\ last.err = last.found.err
           /\ path = last.before.path
           /\ observer = last.before.observer
           /\ ~Made("stop", last.before.observer)
           /\ ActiveHandles = last.before.alive

\* The watches of observer o are one non-recursive watch, on the parent
\* directory of the tracked path.
WatchesParentOnly(o) ==
    /\ observers[o].watches # {}
    /\ \A w \in observers[o].watches :
          w.dir = Parent(path) /\ ~w.recursive

\* C18 as amended: an active observer that has not been asked to stop watches the
\* parent directory of the tracked path, non-recursively, and nothing else;
\* construction and every successful rotation end with the tracker's
\* observer active, not asked to stop, and so watching that directory.
C18_WatchesParentOfTrackedPath ==
    /\ \A o \in ActiveHandles :
          ~observers[o].stop_requested => (o = observer /\ WatchesParentOnly(o))
    /\ (/\ last.err = NoError
        /\ last.op = "__init__" \/ (FollowedRotation /\ Created))
          => /\ TrackerState = "Watching"
             /\ observer \in ActiveHandles
             /\ ~observers[observer].stop_requested
             /\ WatchesParentOnly(observer)

C18_Witness ==
    /\ FollowedRotation /\ Created /\ last.err = NoError
    /\ Parent(path) # Parent(last.before.path)
    /\ TrackerState = "Watching"
    /\ WatchesParentOnly(observer)
    /\ observers[last.before.observer].watches = {}

\* C18 as claimed: whenever the tracker is Watching, between two calls,
\* every active observer watches the parent directory of the tracked path.
C18_EveryActiveObserverWatchesParent ==
    \A o \in ActiveHandles : WatchesParentOnly(o)

\* handle_log_moved on the observer's thread and __del__ on the caller's
\* thread have both ended.
BothFinished == running.rot.pc = "done" /\ running.del.pc = "done"

\* A statement of __del__ was executed between two statements of
\* handle_log_moved.
Interleaved ==
    \E i, j, k \in 1..Len(running.log) :
        /\ i < j /\ j < k
        /\ running.log[i][1] = "handle_log_moved"
        /\ running.log[j][1] = "__del__" /\ running.log[j][2] # "enter"
        /\ running.log[k][1] = "handle_log_moved"

====
